---- MODULE Spec2Model ----
(***************************************************************************)
(* Model of homeassistant/components/anova/climate.py: the AnovaMonitor    *)
(* thread (run), the request_set_* entry points called from other threads, *)
(* and terminate().                                                        *)
(*                                                                         *)
(* Three threads of control are modelled:                                  *)
(*   - the worker (AnovaMonitor.run), position pcW;                        *)
(*   - one caller thread that issues request_set_* calls, position pcR;    *)
(*   - the host thread that calls terminate(), position pcT.               *)
(* An optional Python value is a sequence of length at most one:           *)
(* None is << >> and a value x is << x >>.                                 *)
(* A numeric string sent by the device is [num |-> n, fmt |-> k]: the      *)
(* number it denotes and which of several spellings of it is used          *)
(* (str(x) produces spelling 0); a non-numeric string has num = -1.        *)
(***************************************************************************)
EXTENDS Integers, Sequences, FiniteSets, TLC

\* Largest target temperature the callers request.
MaxTemp == 1

\* Largest current temperature the device reports.
MaxCurrent == 1

\* Number of distinct spellings of one number in a device response.
MaxFmt == 1

None == << >>

\* The locals of run() and of request_set_* hold this while they are not in use.
NoKey == ""

Some(x) == << x >>

TEMP_CELSIUS == "degC"

TEMP_FAHRENHEIT == "degF"

HVAC_MODE_HEAT == "heat"

HVAC_MODE_OFF == "off"

CTL_START == "start"

CTL_STOP == "stop"

ANOVA_STATE_RUNNING == "running"

ANOVA_STATE_STOPPED == "stopped"

ANOVA_TEMP_CELCIUS == "c"

ANOVA_TEMP_FAHRENHEIT == "f"

ATTR_AVAILABLE == "available"

ATTR_CURRENT_TEMPERATURE == "current_temperature"

ATTR_HVAC_MODE == "hvac_mode"

ATTR_TARGET_TEMPERATURE == "target_temperature"

ATTR_TEMPERATURE_UNIT == "temperature_unit"

CONF_TEMPERATURE_UNIT == "temperature_unit"

\* The three keys are plain (not formatted) strings in the source.
ATTR_CTL_HVAC_MODE == "{CTL}_{ATTR_HVAC_MODE}"

ATTR_CTL_TARGET_TEMPERATURE == "{CTL}_{ATTR_TARGET_TEMPERATURE}"

ATTR_CTL_TEMPERATURE_UNIT == "{CTL}_{ATTR_TEMPERATURE_UNIT}"

MON_GET_TEMPERATURE_UNIT == 1

MON_GET_STATUS == 2

MON_GET_CURRENT_TEMPERATURE == 3

MON_GET_TARGET_TEMPERATURE == 4

MON_IDLE == 5

TEMP_MAP == (ANOVA_TEMP_CELCIUS :> TEMP_CELSIUS) @@ (ANOVA_TEMP_FAHRENHEIT :> TEMP_FAHRENHEIT)

CTL_MAP == (CTL_START :> HVAC_MODE_HEAT) @@ (CTL_STOP :> HVAC_MODE_OFF)

STATUS_MAP == (ANOVA_STATE_RUNNING :> HVAC_MODE_HEAT) @@ (ANOVA_STATE_STOPPED :> HVAC_MODE_OFF)

HVAC_MODES == {HVAC_MODE_OFF, HVAC_MODE_HEAT}

Units == {TEMP_CELSIUS, TEMP_FAHRENHEIT}

Temps == 1..MaxTemp

\* The pending (command) keys, the live keys, and the pending key of a live key.
CtlKeys == {ATTR_CTL_TEMPERATURE_UNIT, ATTR_CTL_TARGET_TEMPERATURE, ATTR_CTL_HVAC_MODE}

LiveKeys == {ATTR_TEMPERATURE_UNIT, ATTR_TARGET_TEMPERATURE, ATTR_HVAC_MODE}

CtlOf(k) ==
    CASE k = ATTR_TEMPERATURE_UNIT -> ATTR_CTL_TEMPERATURE_UNIT
      [] k = ATTR_TARGET_TEMPERATURE -> ATTR_CTL_TARGET_TEMPERATURE
      [] k = ATTR_HVAC_MODE -> ATTR_CTL_HVAC_MODE

LiveOf(k) ==
    CASE k = ATTR_CTL_TEMPERATURE_UNIT -> ATTR_TEMPERATURE_UNIT
      [] k = ATTR_CTL_TARGET_TEMPERATURE -> ATTR_TARGET_TEMPERATURE
      [] k = ATTR_CTL_HVAC_MODE -> ATTR_HVAC_MODE

\* Values a caller may pass to the request_set_* call for a live key.
RequestValues(k) ==
    CASE k = ATTR_TEMPERATURE_UNIT -> Units
      [] k = ATTR_TARGET_TEMPERATURE -> Temps
      [] k = ATTR_HVAC_MODE -> HVAC_MODES

\* Strings the device client may return.
BadText == "?"

BadNumber == [num |-> -1, fmt |-> 0]

\* Answers to a target temperature command or read: the temperatures the
\* callers request and one, 0, that none requests (a setpoint entered at the
\* device), in every spelling, or no number.
NumberRsp == {[num |-> n, fmt |-> f] : n \in 0..MaxTemp, f \in 0..MaxFmt} \cup {BadNumber}

\* Answers to a current temperature read.
CurrentRsp == {[num |-> n, fmt |-> f] : n \in 1..MaxCurrent, f \in 0..MaxFmt} \cup {BadNumber}

UnitRsp == {ANOVA_TEMP_CELCIUS, ANOVA_TEMP_FAHRENHEIT, BadText}

StatusRsp == {ANOVA_STATE_RUNNING, ANOVA_STATE_STOPPED, BadText}

CtlRsp == {CTL_START, CTL_STOP, BadText}

\* Outcomes of one device-client call: a response, an error of the
\* recoverable classes, or ExceptionPexpect.
Outcomes == {"ok", "Recoverable", "ExceptionPexpect"}

VARIABLES
    data,          \* AnovaMonitor.data (the shared dictionary)
    keep_going,    \* AnovaMonitor.keep_going
    command_event, \* AnovaMonitor.command_event (is the Event set)
    device,        \* AnovaMonitor.device: None or the PyAnova object
    next_command,  \* run(): local next_command
    pcW,           \* position of the worker thread in run()
    key,           \* run(): the pending key of the command being executed
    arg,           \* run(): the pending value read for the command
    resp,          \* get_* / set_* / send_start: the local `value` of the method
    exc,           \* run(): how the try block was left
    after,         \* run(): where the worker continues after data_handler()
    pcR,           \* position of the caller thread in request_set_*
    rkey,          \* request_set_*: the live key written
    rval,          \* request_set_*: the value requested
    pcT,           \* position of the host thread in terminate()
    conn,          \* device client: state of its connection
    ev             \* what the last step of the worker did

vars == <<data, keep_going, command_event, device, next_command, pcW, key, arg,
          resp, exc, after, pcR, rkey, rval, pcT, conn, ev>>

workerVars == <<keep_going, device, next_command, pcW, key, arg, resp, exc, after,
                conn>>

callerVars == <<pcR, rkey, rval>>

\* ev, what the worker's last step did: the device operation called (or
\* "none"), the key and the value concerned, how the call ended, and the
\* data_handler() call made (or "none").
Event(op, k, v, res, note) ==
    [op |-> op, key |-> k, val |-> v, res |-> res, note |-> note]

Quiet == Event("none", NoKey, None, "ok", "none")

----------------------------------------------------------------------------
\* Pure functions of AnovaMonitor

handle_map(rsp, values) ==
    IF rsp \in DOMAIN values THEN Some(values[rsp]) ELSE None

handle_float(rsp) ==
    IF rsp.num >= 0 THEN Some(rsp.num) ELSE None

\* str(temperature): the canonical spelling of the number.
str(temperature) == [num |-> temperature, fmt |-> 0]

\* process_response: the dictionary afterwards.
process_response(d, value, k) ==
    IF value = None THEN d
    ELSE IF value # d[k] THEN [d EXCEPT ![k] = value]
    ELSE d

\* process_response_notifies without the test of the availability flag.
process_response_notifies_any(d, value, k) ==
    value # None /\ value # d[k]

\* process_response: whether data_handler() is called.
process_response_notifies(d, value, k) ==
    value # None /\ value # d[k] /\ d[ATTR_AVAILABLE]

\* ComputeAvailable with the target temperature left out.
ComputeAvailableNoTarget(d) ==
    /\ d[ATTR_CURRENT_TEMPERATURE] # None
    /\ d[ATTR_TEMPERATURE_UNIT] # None

\* run(): the local `available` computed at the head of the inner loop.
ComputeAvailable(d) ==
    /\ d[ATTR_CURRENT_TEMPERATURE] # None
    /\ d[ATTR_TARGET_TEMPERATURE] # None
    /\ d[ATTR_TEMPERATURE_UNIT] # None

\* NextAction with the first two branches exchanged.
NextActionTargetFirst(d, nc) ==
    IF d[ATTR_CTL_TARGET_TEMPERATURE] # None THEN ATTR_CTL_TARGET_TEMPERATURE
    ELSE IF d[ATTR_CTL_TEMPERATURE_UNIT] # None THEN ATTR_CTL_TEMPERATURE_UNIT
    ELSE IF d[ATTR_CTL_HVAC_MODE] # None THEN ATTR_CTL_HVAC_MODE
    ELSE IF nc \in {MON_GET_TEMPERATURE_UNIT, MON_GET_STATUS,
                    MON_GET_CURRENT_TEMPERATURE, MON_GET_TARGET_TEMPERATURE} THEN "poll"
    ELSE "idle"

\* run(): the branch of the if/elif chain taken in one iteration.
NextAction(d, nc) ==
    IF d[ATTR_CTL_TEMPERATURE_UNIT] # None THEN ATTR_CTL_TEMPERATURE_UNIT
    ELSE IF d[ATTR_CTL_TARGET_TEMPERATURE] # None THEN ATTR_CTL_TARGET_TEMPERATURE
    ELSE IF d[ATTR_CTL_HVAC_MODE] # None THEN ATTR_CTL_HVAC_MODE
    ELSE IF nc \in {MON_GET_TEMPERATURE_UNIT, MON_GET_STATUS,
                    MON_GET_CURRENT_TEMPERATURE, MON_GET_TARGET_TEMPERATURE} THEN "poll"
    ELSE "idle"

\* run(): the argument handed to the device for a pending value.
CommandArg(k, v) ==
    CASE k = ATTR_CTL_TEMPERATURE_UNIT ->
            IF v = Some(TEMP_CELSIUS) THEN ANOVA_TEMP_CELCIUS ELSE ANOVA_TEMP_FAHRENHEIT
      [] k = ATTR_CTL_TARGET_TEMPERATURE -> v[1]
      [] k = ATTR_CTL_HVAC_MODE -> (v = Some(HVAC_MODE_HEAT))

\* The device operation a command calls.
CommandOp(k, v) ==
    CASE k = ATTR_CTL_TEMPERATURE_UNIT -> "set_unit"
      [] k = ATTR_CTL_TARGET_TEMPERATURE -> "set_temperature"
      [] k = ATTR_CTL_HVAC_MODE -> IF CommandArg(k, v) THEN "start_anova" ELSE "stop_anova"

\* Responses the device may give to a command, and the value the
\* set_* / send_start method derives from one.
CommandRsp(k) ==
    CASE k = ATTR_CTL_TEMPERATURE_UNIT -> UnitRsp
      [] k = ATTR_CTL_TARGET_TEMPERATURE -> NumberRsp
      [] k = ATTR_CTL_HVAC_MODE -> CtlRsp

\* CommandValue with the answer to set_temperature parsed as a number.
CommandValueAnyNumber(k, v, rsp) ==
    CASE k = ATTR_CTL_TEMPERATURE_UNIT -> handle_map(rsp, TEMP_MAP)
      [] k = ATTR_CTL_TARGET_TEMPERATURE -> handle_float(rsp)
      [] k = ATTR_CTL_HVAC_MODE -> handle_map(rsp, CTL_MAP)

CommandValue(k, v, rsp) ==
    CASE k = ATTR_CTL_TEMPERATURE_UNIT -> handle_map(rsp, TEMP_MAP)
      [] k = ATTR_CTL_TARGET_TEMPERATURE -> handle_map(rsp, str(v[1]) :> v[1])
      [] k = ATTR_CTL_HVAC_MODE -> handle_map(rsp, CTL_MAP)

\* The poll step of a next_command value: operation, live key, responses, value.
PollOp(nc) ==
    CASE nc = MON_GET_TEMPERATURE_UNIT -> "get_unit"
      [] nc = MON_GET_STATUS -> "get_status"
      [] nc = MON_GET_CURRENT_TEMPERATURE -> "get_current_temperature"
      [] nc = MON_GET_TARGET_TEMPERATURE -> "get_target_temperature"

PollKey(nc) ==
    CASE nc = MON_GET_TEMPERATURE_UNIT -> CONF_TEMPERATURE_UNIT
      [] nc = MON_GET_STATUS -> ATTR_HVAC_MODE
      [] nc = MON_GET_CURRENT_TEMPERATURE -> ATTR_CURRENT_TEMPERATURE
      [] nc = MON_GET_TARGET_TEMPERATURE -> ATTR_TARGET_TEMPERATURE

PollRsp(nc) ==
    CASE nc = MON_GET_TEMPERATURE_UNIT -> UnitRsp
      [] nc = MON_GET_STATUS -> StatusRsp
      [] nc = MON_GET_CURRENT_TEMPERATURE -> CurrentRsp
      [] nc = MON_GET_TARGET_TEMPERATURE -> NumberRsp

PollValue(nc, rsp) ==
    CASE nc = MON_GET_TEMPERATURE_UNIT -> handle_map(rsp, TEMP_MAP)
      [] nc = MON_GET_STATUS -> handle_map(rsp, STATUS_MAP)
      [] nc = MON_GET_CURRENT_TEMPERATURE -> handle_float(rsp)
      [] nc = MON_GET_TARGET_TEMPERATURE -> handle_float(rsp)

\* PollNext with the cycle closed on the unit read.
PollNextWraps(nc) ==
    IF nc = MON_GET_TARGET_TEMPERATURE THEN MON_GET_TEMPERATURE_UNIT ELSE nc + 1

\* run(): the value next_command takes after a poll step.
PollNext(nc) == nc + 1

----------------------------------------------------------------------------
\* setup_platform: the dictionary, the monitor and the started thread.

\* InitData with the pending unit left empty.
InitDataNoPendingUnit(u) ==
    (ATTR_AVAILABLE :> FALSE) @@
    (ATTR_CURRENT_TEMPERATURE :> None) @@
    (ATTR_CTL_HVAC_MODE :> None) @@
    (ATTR_HVAC_MODE :> None) @@
    (ATTR_CTL_TARGET_TEMPERATURE :> None) @@
    (ATTR_TARGET_TEMPERATURE :> None) @@
    (ATTR_CTL_TEMPERATURE_UNIT :> None) @@
    (ATTR_TEMPERATURE_UNIT :> Some(u))

\* The dictionary setup_platform builds; u is hass.config.units.temperature_unit.
InitData(u) ==
    (ATTR_AVAILABLE :> FALSE) @@
    (ATTR_CURRENT_TEMPERATURE :> None) @@
    (ATTR_CTL_HVAC_MODE :> None) @@
    (ATTR_HVAC_MODE :> None) @@
    (ATTR_CTL_TARGET_TEMPERATURE :> None) @@
    (ATTR_TARGET_TEMPERATURE :> None) @@
    (ATTR_CTL_TEMPERATURE_UNIT :> Some(u)) @@
    (ATTR_TEMPERATURE_UNIT :> Some(u))

Init ==
    /\ \E u \in Units : data = InitData(u)
    /\ keep_going = TRUE
    /\ command_event = FALSE
    /\ device = None
    /\ next_command = MON_GET_TEMPERATURE_UNIT
    /\ pcW = "start"
    /\ key = NoKey
    /\ arg = None
    /\ resp = None
    /\ exc = "none"
    /\ after = NoKey
    /\ pcR = "idle"
    /\ rkey = NoKey
    /\ rval = None
    /\ pcT = "idle"
    /\ conn = "closed"
    /\ ev = Quiet

----------------------------------------------------------------------------
\* The worker thread: AnovaMonitor.run

\* Except with ExceptionPexpect leaving keep_going as it is.
ExceptKeepsGoing(e) ==
    /\ pcW' = "finally"
    /\ exc' = e
    /\ next_command' = MON_GET_TEMPERATURE_UNIT
    /\ key' = NoKey
    /\ arg' = None
    /\ UNCHANGED resp
    /\ IF e = "ExceptionPexpect"
         THEN device' = None /\ UNCHANGED keep_going
         ELSE UNCHANGED <<keep_going, device>>

\* An exception leaves the try block: the except clause that catches it.
Except(e) ==
    /\ pcW' = "finally"
    /\ exc' = e
    /\ next_command' = MON_GET_TEMPERATURE_UNIT
    /\ key' = NoKey
    /\ arg' = None
    /\ UNCHANGED resp
    /\ IF e = "ExceptionPexpect"
         THEN keep_going' = FALSE /\ device' = None
         ELSE UNCHANGED <<keep_going, device>>

\* run(): the PyAnova object is created.
RunStart ==
    /\ pcW = "start"
    /\ device' = Some("PyAnova")
    /\ pcW' = "outer"
    /\ ev' = Quiet
    /\ UNCHANGED <<data, keep_going, command_event, next_command, key, arg, resp, exc,
                   after, conn, callerVars, pcT>>

\* OuterHead with the loop left after a disconnect.
OuterHeadNoRetry ==
    /\ pcW = "outer"
    /\ IF keep_going /\ ev.op # "disconnect"
         THEN IF data[ATTR_AVAILABLE]
                THEN /\ data' = [data EXCEPT ![ATTR_AVAILABLE] = FALSE]
                     /\ pcW' = "notify"
                     /\ after' = "connect"
                ELSE /\ pcW' = "connect"
                     /\ UNCHANGED <<data, after>>
         ELSE /\ pcW' = "done"
              /\ UNCHANGED <<data, after>>
    /\ ev' = Quiet
    /\ UNCHANGED <<keep_going, command_event, device, next_command, key, arg, resp, exc,
                   conn, callerVars, pcT>>

\* Head of the outer loop: the keep_going test and the availability reset.
OuterHead ==
    /\ pcW = "outer"
    /\ IF keep_going
         THEN IF data[ATTR_AVAILABLE]
                THEN /\ data' = [data EXCEPT ![ATTR_AVAILABLE] = FALSE]
                     /\ pcW' = "notify"
                     /\ after' = "connect"
                ELSE /\ pcW' = "connect"
                     /\ UNCHANGED <<data, after>>
         ELSE /\ pcW' = "done"
              /\ UNCHANGED <<data, after>>
    /\ ev' = Quiet
    /\ UNCHANGED <<keep_going, command_event, device, next_command, key, arg, resp, exc,
                   conn, callerVars, pcT>>

\* data_handler() after a change of the availability flag.
NotifyAvailable ==
    /\ pcW = "notify"
    /\ pcW' = after
    /\ after' = NoKey
    /\ ev' = Event("none", ATTR_AVAILABLE, None, "ok", "available")
    /\ UNCHANGED <<data, keep_going, command_event, device, next_command, key, arg, resp,
                   exc, conn, callerVars, pcT>>

\* device.connect_device(...) and, when it returns, next_command's first value.
Connect ==
    /\ pcW = "connect"
    /\ \E o \in Outcomes :
         /\ ev' = Event("connect_device", NoKey, None, o, "none")
         /\ IF o = "ok"
              THEN /\ conn' = "open"
                   /\ next_command' = MON_GET_TEMPERATURE_UNIT
                   /\ pcW' = "inner"
                   /\ UNCHANGED <<keep_going, device, exc, key, arg, resp>>
              ELSE /\ Except(o)
                   /\ UNCHANGED conn
    /\ UNCHANGED <<data, command_event, after, callerVars, pcT>>

\* InnerHead with the availability computed only after the first read of a
\* connection.
InnerHeadAfterRead ==
    /\ pcW = "inner"
    /\ IF keep_going
         THEN /\ IF /\ ~data[ATTR_AVAILABLE]
                      /\ ComputeAvailable(data)
                      /\ next_command # MON_GET_TEMPERATURE_UNIT
                   THEN /\ data' = [data EXCEPT ![ATTR_AVAILABLE] = TRUE]
                        /\ pcW' = "notify"
                        /\ after' = "dispatch"
                   ELSE /\ pcW' = "dispatch"
                        /\ UNCHANGED <<data, after>>
              /\ UNCHANGED <<exc, next_command>>
         ELSE /\ pcW' = "finally"
              /\ exc' = "none"
              /\ next_command' = MON_GET_TEMPERATURE_UNIT
              /\ UNCHANGED <<data, after>>
    /\ ev' = Quiet
    /\ UNCHANGED <<keep_going, command_event, device, key, arg, resp, conn, callerVars, pcT>>

\* Head of the inner loop: the keep_going test, the availability
\* computation and the flag's change to True; `break` when keep_going is False.
InnerHead ==
    /\ pcW = "inner"
    /\ IF keep_going
         THEN /\ IF ~data[ATTR_AVAILABLE] /\ ComputeAvailable(data)
                   THEN /\ data' = [data EXCEPT ![ATTR_AVAILABLE] = TRUE]
                        /\ pcW' = "notify"
                        /\ after' = "dispatch"
                   ELSE /\ pcW' = "dispatch"
                        /\ UNCHANGED <<data, after>>
              /\ UNCHANGED <<exc, next_command>>
         ELSE /\ pcW' = "finally"
              /\ exc' = "none"
              /\ next_command' = MON_GET_TEMPERATURE_UNIT
              /\ UNCHANGED <<data, after>>
    /\ ev' = Quiet
    /\ UNCHANGED <<keep_going, command_event, device, key, arg, resp, conn, callerVars, pcT>>

\* CommandRaised with the pending field cleared before the call.
CommandRaisedClears(d, k) == [d EXCEPT ![k] = None]

\* The dictionary when the device call of a command raises: the statement
\* after the call, which clears the pending field, is not reached.
CommandRaised(d, k) == d

\* A command branch of the if/elif chain: the pending value is read and
\* set_temperature_unit / set_target_temperature / send_start is called, up
\* to the device call's return and the value derived from the response.
Command ==
    /\ pcW = "dispatch"
    /\ NextAction(data, next_command) \in CtlKeys
    /\ LET k == NextAction(data, next_command)
           v == data[k]
       IN  \E o \in Outcomes :
             /\ ev' = Event(CommandOp(k, v), k, v, o, "none")
             /\ IF o = "ok"
                  THEN \E rsp \in CommandRsp(k) :
                         /\ resp' = CommandValue(k, v, rsp)
                         /\ key' = k
                         /\ arg' = v
                         /\ pcW' = "respond"
                         /\ UNCHANGED <<data, keep_going, device, exc, next_command>>
                  ELSE /\ Except(o)
                       /\ data' = CommandRaised(data, k)
    /\ UNCHANGED <<command_event, after, conn, callerVars, pcT>>

\* process_response on the value of a command or of a poll step; after a
\* poll step next_command advances.
Response ==
    /\ pcW = "respond"
    /\ LET live == IF key = NoKey THEN PollKey(next_command) ELSE LiveOf(key)
       IN  /\ data' = process_response(data, resp, live)
           /\ ev' = Event("none", live, None,
                          IF resp = None THEN "ignored" ELSE "ok",
                          IF process_response_notifies(data, resp, live)
                            THEN "response" ELSE "none")
    /\ resp' = None
    /\ IF key = NoKey
         THEN /\ next_command' = PollNext(next_command)
              /\ pcW' = "inner"
         ELSE /\ pcW' = "clear"
              /\ UNCHANGED next_command
    /\ UNCHANGED <<keep_going, command_event, device, key, arg, exc, after, conn,
                   callerVars, pcT>>

\* ClearPending with the poll cycle restarted after a command.
ClearPendingRestarts ==
    /\ pcW = "clear"
    /\ data' = [data EXCEPT ![key] = None]
    /\ pcW' = "inner"
    /\ key' = NoKey
    /\ arg' = None
    /\ next_command' = MON_GET_STATUS
    /\ ev' = Quiet
    /\ UNCHANGED <<keep_going, command_event, device, resp, exc,
                   after, conn, callerVars, pcT>>

\* The pending field of the executed command is set to None.
ClearPending ==
    /\ pcW = "clear"
    /\ data' = [data EXCEPT ![key] = None]
    /\ pcW' = "inner"
    /\ key' = NoKey
    /\ arg' = None
    /\ ev' = Quiet
    /\ UNCHANGED <<keep_going, command_event, device, next_command, resp, exc,
                   after, conn, callerVars, pcT>>

\* A poll branch of the if/elif chain: get_temperature_unit / get_status /
\* get_current_temperature / get_target_temperature is called, up to the
\* device call's return and the value derived from the response.
Poll ==
    /\ pcW = "dispatch"
    /\ NextAction(data, next_command) = "poll"
    /\ \E o \in Outcomes :
         /\ ev' = Event(PollOp(next_command), PollKey(next_command), None, o, "none")
         /\ IF o = "ok"
              THEN \E rsp \in PollRsp(next_command) :
                     /\ resp' = PollValue(next_command, rsp)
                     /\ pcW' = "respond"
                     /\ UNCHANGED <<keep_going, device, exc, key, arg, next_command>>
              ELSE Except(o)
    /\ UNCHANGED <<data, command_event, after, conn, callerVars, pcT>>

\* The last branch of the if/elif chain: next_command = MON_GET_STATUS.
Idle ==
    /\ pcW = "dispatch"
    /\ NextAction(data, next_command) = "idle"
    /\ next_command' = MON_GET_STATUS
    /\ pcW' = "clear_event"
    /\ ev' = Quiet
    /\ UNCHANGED <<data, keep_going, command_event, device, key, arg, resp, exc, after,
                   conn, callerVars, pcT>>

\* command_event.clear()
ClearEvent ==
    /\ pcW = "clear_event"
    /\ command_event' = FALSE
    /\ pcW' = "wait"
    /\ ev' = Quiet
    /\ UNCHANGED <<data, keep_going, device, next_command, key, arg, resp, exc, after,
                   conn, callerVars, pcT>>

\* command_event.wait(polling_cycle) returns because the event is set.
WaitSignalled ==
    /\ pcW = "wait"
    /\ command_event
    /\ pcW' = "inner"
    /\ ev' = Event("none", NoKey, None, "signalled", "none")
    /\ UNCHANGED <<data, keep_going, command_event, device, next_command, key, arg, resp,
                   exc, after, conn, callerVars, pcT>>

\* command_event.wait(polling_cycle) returns because the polling cycle elapsed.
WaitTimeout ==
    /\ pcW = "wait"
    /\ ~command_event
    /\ pcW' = "inner"
    /\ ev' = Event("none", NoKey, None, "timeout", "none")
    /\ UNCHANGED <<data, keep_going, command_event, device, next_command, key, arg, resp,
                   exc, after, conn, callerVars, pcT>>

\* Finally without the data_handler() call.
FinallySilent ==
    /\ pcW = "finally"
    /\ data' = [data EXCEPT ![ATTR_AVAILABLE] = FALSE]
    /\ pcW' = "disconnect"
    /\ ev' = Quiet
    /\ UNCHANGED <<keep_going, command_event, device, next_command, key, arg, resp, exc,
                   after, conn, callerVars, pcT>>

\* The finally clause: the availability flag is reset.
Finally ==
    /\ pcW = "finally"
    /\ IF data[ATTR_AVAILABLE]
         THEN /\ data' = [data EXCEPT ![ATTR_AVAILABLE] = FALSE]
              /\ pcW' = "notify"
              /\ after' = "disconnect"
         ELSE /\ pcW' = "disconnect"
              /\ UNCHANGED <<data, after>>
    /\ ev' = Quiet
    /\ UNCHANGED <<keep_going, command_event, device, next_command, key, arg, resp, exc,
                   conn, callerVars, pcT>>

\* Disconnect with the disconnect() call made only after an exception.
DisconnectOnErrorOnly ==
    /\ pcW = "disconnect"
    /\ IF device # None /\ exc # "none"
         THEN /\ ev' = Event("disconnect", NoKey, None, "ok", "none")
              /\ conn' = "closed"
         ELSE /\ ev' = Quiet
              /\ UNCHANGED conn
    /\ pcW' = IF exc = "none" THEN "done" ELSE "outer"
    /\ exc' = "none"
    /\ UNCHANGED <<data, keep_going, command_event, device, next_command, key, arg, resp,
                   after, callerVars, pcT>>

\* The finally clause: device.disconnect() if there is a device; then the
\* loop is left (after `break`) or its head is reached again.
Disconnect ==
    /\ pcW = "disconnect"
    /\ IF device # None
         THEN /\ ev' = Event("disconnect", NoKey, None, "ok", "none")
              /\ conn' = "closed"
         ELSE /\ ev' = Quiet
              /\ UNCHANGED conn
    /\ pcW' = IF exc = "none" THEN "done" ELSE "outer"
    /\ exc' = "none"
    /\ UNCHANGED <<data, keep_going, command_event, device, next_command, key, arg, resp,
                   after, callerVars, pcT>>

----------------------------------------------------------------------------
\* The caller thread: request_set_hvac_mode / request_set_temperature /
\* request_set_temperature_unit

\* RequestApplies without the test.
RequestAppliesAlways(d, k, v) == TRUE

\* request_set_temperature_unit: the test that guards the call's body.
RequestApplies(d, k, v) ==
    k = ATTR_TEMPERATURE_UNIT => Some(v) # d[CONF_TEMPERATURE_UNIT]

\* The call and its first statement: the pending field is written, or the
\* body is skipped.
Request ==
    /\ pcR = "idle"
    /\ \E k \in LiveKeys : \E v \in RequestValues(k) :
         /\ rkey' = k
         /\ rval' = Some(v)
         /\ IF RequestApplies(data, k, v)
              THEN /\ data' = [data EXCEPT ![CtlOf(k)] = Some(v)]
                   /\ pcR' = "live"
              ELSE /\ pcR' = "skip"
                   /\ UNCHANGED data
    /\ UNCHANGED <<command_event, workerVars, pcT, ev>>

\* request_set_temperature_unit returns without having run its body.
RequestSkipped ==
    /\ pcR = "skip"
    /\ pcR' = "idle"
    /\ rkey' = NoKey
    /\ rval' = None
    /\ UNCHANGED <<data, command_event, workerVars, pcT, ev>>

\* The live field is written.
RequestLive ==
    /\ pcR = "live"
    /\ data' = [data EXCEPT ![rkey] = rval]
    /\ pcR' = "event"
    /\ rkey' = NoKey
    /\ rval' = None
    /\ UNCHANGED <<command_event, workerVars, pcT, ev>>

\* RequestSetEvent without the set() call.
RequestSkipEvent ==
    /\ pcR = "event"
    /\ pcR' = "notify"
    /\ UNCHANGED <<data, command_event, rkey, rval, workerVars, pcT, ev>>

\* command_event.set()
RequestSetEvent ==
    /\ pcR = "event"
    /\ command_event' = TRUE
    /\ pcR' = "notify"
    /\ UNCHANGED <<data, rkey, rval, workerVars, pcT, ev>>

\* data_handler()
RequestNotify ==
    /\ pcR = "notify"
    /\ pcR' = "idle"
    /\ rkey' = NoKey
    /\ rval' = None
    /\ UNCHANGED <<data, command_event, workerVars, pcT, ev>>

----------------------------------------------------------------------------
\* The host thread: AnovaMonitor.terminate

\* keep_going = False
Terminate ==
    /\ pcT = "idle"
    /\ keep_going' = FALSE
    /\ pcT' = "set"
    /\ UNCHANGED <<data, command_event, device, next_command, pcW, key, arg, resp, exc,
                   after, conn, callerVars, ev>>

\* command_event.set()
TerminateSetEvent ==
    /\ pcT = "set"
    /\ command_event' = TRUE
    /\ pcT' = "join"
    /\ UNCHANGED <<data, workerVars, callerVars, ev>>

\* Join without waiting for the thread.
JoinNoWait ==
    /\ pcT = "join"
    /\ pcT' = "returned"
    /\ UNCHANGED <<data, command_event, workerVars, callerVars, ev>>

\* join(): returns once run() has returned.
Join ==
    /\ pcT = "join"
    /\ pcW = "done"
    /\ pcT' = "returned"
    /\ UNCHANGED <<data, command_event, workerVars, callerVars, ev>>

Worker ==
    \/ RunStart \/ OuterHead \/ NotifyAvailable \/ Connect \/ InnerHead
    \/ Command \/ Response \/ ClearPending \/ Poll \/ Idle \/ ClearEvent \/ WaitSignalled
    \/ WaitTimeout \/ Finally \/ Disconnect

Caller == Request \/ RequestSkipped \/ RequestLive \/ RequestSetEvent \/ RequestNotify

Host == Terminate \/ TerminateSetEvent \/ Join

Next == Worker \/ Caller \/ Host

Spec == Init /\ [][Next]_vars

\* The program in the runs in which no request_set_* call is made.
NextNoRequest == Worker \/ Host

SpecNoRequest == Init /\ [][NextNoRequest]_vars

\* A device call returns a response from which get_temperature_unit,
\* set_temperature_unit, get_target_temperature or set_target_temperature
\* derives a value: a reading of the unit or of the target temperature.
UnitOrTargetReading ==
    /\ pcW = "dispatch"
    /\ pcW' = "respond"
    /\ ev'.key \in {ATTR_CTL_TEMPERATURE_UNIT, ATTR_CTL_TARGET_TEMPERATURE,
                    ATTR_TEMPERATURE_UNIT, ATTR_TARGET_TEMPERATURE}
    /\ resp' # None

\* The program in the runs in which the device gives no reading of the unit
\* or of the target temperature (it times out or answers with text that maps
\* to no value).
NextNoUnitOrTargetReading == Next /\ ~UnitOrTargetReading

SpecNoUnitOrTargetReading == Init /\ [][NextNoUnitOrTargetReading]_vars

TypeOK ==
    /\ data[ATTR_AVAILABLE] \in BOOLEAN
    /\ keep_going \in BOOLEAN
    /\ command_event \in BOOLEAN
    /\ next_command \in MON_GET_TEMPERATURE_UNIT..MON_IDLE
    /\ pcW \in {"start", "outer", "notify", "connect", "inner", "dispatch", "respond",
                "clear", "clear_event", "wait", "finally", "disconnect", "done"}
    /\ pcR \in {"idle", "skip", "live", "event", "notify"}
    /\ pcT \in {"idle", "set", "join", "returned"}
    /\ conn \in {"open", "closed"}

----------------------------------------------------------------------------
\* Vocabulary of the properties

CommandOps == {"set_unit", "set_temperature", "start_anova", "stop_anova"}

PollOps == {"get_unit", "get_status", "get_current_temperature", "get_target_temperature"}

\* The step is one of the worker's (every worker step moves pcW).
WorkerStep == pcW' # pcW

\* The step is one of the caller's.
CallerStep == pcR' # pcR

AllKnown ==
    /\ data[ATTR_CURRENT_TEMPERATURE] # None
    /\ data[ATTR_TARGET_TEMPERATURE] # None
    /\ data[ATTR_TEMPERATURE_UNIT] # None

SomePending == \E k \in CtlKeys : data[k] # None

----------------------------------------------------------------------------
\* C1: every iteration of the Connected loop takes exactly one action, chosen
\* by priority over the state at the moment of choice: a pending unit is sent
\* (set_unit); else a pending target temperature is sent (set_temperature);
\* else a pending hvac mode is sent (start/stop); else one poll step or the
\* idle wait. The value sent is the pending value, a device command or read
\* is only ever issued from that choice, after it the worker is back at the
\* loop head before it chooses again, and a pending field is only emptied by
\* the worker's clearing step, one field at a time.
C1_OneActionByPriority ==
    [][ /\ (pcW = "dispatch" /\ WorkerStep) =>
             LET pu == data[ATTR_CTL_TEMPERATURE_UNIT]
                 pt == data[ATTR_CTL_TARGET_TEMPERATURE]
                 pm == data[ATTR_CTL_HVAC_MODE]
             IN  /\ pu # None =>
                       /\ ev'.op = "set_unit"
                       /\ ev'.key = ATTR_CTL_TEMPERATURE_UNIT
                       /\ ev'.val = pu
                 /\ (pu = None /\ pt # None) =>
                       /\ ev'.op = "set_temperature"
                       /\ ev'.key = ATTR_CTL_TARGET_TEMPERATURE
                       /\ ev'.val = pt
                 /\ (pu = None /\ pt = None /\ pm # None) =>
                       /\ ev'.op \in {"start_anova", "stop_anova"}
                       /\ ev'.key = ATTR_CTL_HVAC_MODE
                       /\ ev'.val = pm
                 /\ (pu = None /\ pt = None /\ pm = None) =>
                       \/ ev'.op \in PollOps
                       \/ ev'.op = "none" /\ pcW' = "clear_event"
                 /\ pcW' \in {"respond", "clear_event", "finally"}
        /\ (WorkerStep /\ ev'.op \in CommandOps \cup PollOps) => pcW = "dispatch"
        /\ (pcW = "respond" /\ WorkerStep) =>
             (ev'.op = "none" /\ pcW' = (IF key \in CtlKeys THEN "clear" ELSE "inner"))
        /\ (pcW = "clear" /\ WorkerStep) => (ev'.op = "none" /\ pcW' = "inner")
        /\ \A k \in CtlKeys :
             (data[k] # None /\ data'[k] = None) =>
                /\ pcW = "clear" /\ key = k
                /\ \A j \in CtlKeys \ {k} : data'[j] = data[j]
      ]_vars

\* C1 witness: a target temperature has just been sent while an hvac-mode
\* request was pending too and no unit request was.
C1_Witness ==
    /\ pcW = "respond"
    /\ ev.op = "set_temperature"
    /\ data[ATTR_CTL_TEMPERATURE_UNIT] = None
    /\ data[ATTR_CTL_HVAC_MODE] # None

\* C2 as stated: when a command's device call raises, the pending field that
\* triggered the command is empty afterwards.
C2_ClearedOnError ==
    [][ (WorkerStep /\ ev'.op \in CommandOps /\ ev'.res # "ok") =>
            data'[ev'.key] = None ]_vars

\* C2 as amended: when a command's device call raises, the pending field that
\* triggered the command is still non-empty; a pending field is emptied only
\* by the clearing step that follows a command of that field whose device
\* call returned.
C2_KeptOnError ==
    [][ /\ (WorkerStep /\ ev'.op \in CommandOps /\ ev'.res # "ok") =>
             /\ pcW' = "finally"
             /\ data'[ev'.key] # None
        /\ \A k \in CtlKeys :
             (data[k] # None /\ data'[k] = None) =>
                /\ pcW = "clear"
                /\ key = k
        /\ (WorkerStep /\ pcW' = "clear") => (pcW = "respond" /\ key' = key)
        /\ (WorkerStep /\ pcW' = "respond" /\ key' \in CtlKeys) =>
             (ev'.op \in CommandOps /\ ev'.key = key' /\ ev'.res = "ok")
      ]_vars

\* C2 witness: a command's device call has raised and its pending field is
\* still set.
C2_Witness ==
    /\ pcW = "finally"
    /\ ev.op \in CommandOps
    /\ ev.res # "ok"
    /\ data[ev.key] # None

\* C3: the worker empties a pending field only when the value in it is the
\* value it has sent to the device.
C3_ClearedOnlyAfterSent ==
    [][ (pcW = "clear" /\ WorkerStep) => data[key] = arg ]_vars

\* C4: the worker is never blocked in the idle wait with the wake signal
\* cleared while a pending field is non-empty and the request that wrote it
\* has set the signal.
C4_NeverAsleepWithPending ==
    ~(pcW = "wait" /\ ~command_event /\ SomePending /\ pcR \in {"idle", "skip", "notify"})

\* C5 as stated: available is true exactly when current temperature, target
\* temperature and unit are all non-empty.
C5_AvailableIffKnown == data[ATTR_AVAILABLE] <=> AllKnown

\* C5 as amended: whenever available is true, current temperature, target
\* temperature and unit are all non-empty.
C5_AvailableImpliesKnown == data[ATTR_AVAILABLE] => AllKnown

\* C5 witness: the device is available.
C5_Witness == data[ATTR_AVAILABLE] /\ pcW = "dispatch"

\* C6: every change of the availability flag is made by the worker and takes
\* it to its notification step; that step calls data_handler() once and is
\* left; the worker calls data_handler() for availability only from that
\* step, and reaches that step only by changing the flag.
C6_OneNotificationPerTransition ==
    [][ /\ data'[ATTR_AVAILABLE] # data[ATTR_AVAILABLE] =>
             (WorkerStep /\ pcW # "notify" /\ pcW' = "notify")
        /\ (pcW = "notify" /\ WorkerStep) =>
             (ev'.note = "available" /\ pcW' # "notify"
                /\ data'[ATTR_AVAILABLE] = data[ATTR_AVAILABLE])
        /\ (WorkerStep /\ ev'.note = "available") => pcW = "notify"
        /\ (WorkerStep /\ pcW' = "notify") =>
             data'[ATTR_AVAILABLE] # data[ATTR_AVAILABLE]
      ]_vars

\* C6 witness: the notification of a change from available to unavailable
\* has just been issued.
C6_Witness == ev.note = "available" /\ ~data[ATTR_AVAILABLE] /\ pcW = "disconnect"

\* C7 as stated: disconnect is attempted only for an established connection
\* that has not been disconnected yet, and whenever the worker is outside the
\* Connected state and its cleanup, no established connection is left without
\* its disconnect attempt.
C7_DisconnectOncePerConnection ==
    /\ [][ (WorkerStep /\ ev'.op = "disconnect") => conn = "open" ]_vars
    /\ [](pcW \in {"outer", "connect", "done"} => conn = "closed")

\* C7 as amended: disconnect is attempted exactly once at the end of every
\* pass through the finally clause in which the device client still exists,
\* that is after every connect attempt that ended in anything but
\* ExceptionPexpect (established connection or not); the device client is
\* dropped only by ExceptionPexpect, and then no disconnect is attempted and
\* an established connection stays open.
C7_DisconnectUnlessFatal ==
    /\ [][ /\ (WorkerStep /\ ev'.op = "disconnect") =>
                (pcW = "disconnect" /\ device # None /\ pcW' \in {"outer", "done"})
           /\ (pcW = "disconnect" /\ WorkerStep) =>
                (ev'.op = "disconnect" <=> device # None)
           /\ (WorkerStep /\ pcW' = "disconnect") => pcW \in {"finally", "notify"}
           /\ (WorkerStep /\ pcW' = "finally") =>
                (pcW \in {"connect", "dispatch", "inner"}
                   /\ (pcW = "inner" <=> ev'.op = "none"))
           /\ (device # None /\ device' = None) =>
                (WorkerStep /\ ev'.res = "ExceptionPexpect")
           /\ (conn = "open" /\ conn' = "closed") => ev'.op = "disconnect"
         ]_vars
    /\ []((conn = "open" /\ pcW \in {"outer", "connect", "done"}) => device = None)

\* C7 witness: the worker has left the Connected state on terminate() and
\* has attempted the disconnect.
C7_Witness ==
    /\ pcW = "done"
    /\ pcT # "idle"
    /\ ev.op = "disconnect"
    /\ conn = "closed"

\* C8: once terminate() has returned the worker has exited, and from then on
\* it takes no step: no device operation, no data_handler() call, no change
\* of its state.
C8_TerminateJoins ==
    /\ [](pcT = "returned" => pcW = "done")
    /\ [][ pcT = "returned" =>
             UNCHANGED <<pcW, ev, device, conn, next_command, key, arg, resp, exc, after,
                         keep_going>> ]_vars

\* C8 witness: terminate() has returned after the worker closed a connection.
C8_Witness == pcT = "returned" /\ ev.op = "disconnect"

\* C9: a request_set_temperature_unit(x) call made while the live unit is x
\* returns without running its body: pending unit, live unit and every other
\* field, the wake signal and the worker's record are unchanged, and the call
\* does not reach its data_handler() step.
C9_SameUnitIsNoOp ==
    [][ /\ (pcR = "idle" /\ CallerStep /\ rkey' = ATTR_TEMPERATURE_UNIT
              /\ rval' = data[ATTR_TEMPERATURE_UNIT]) =>
             (pcR' = "skip" /\ UNCHANGED <<data, command_event, ev>>)
        /\ (pcR = "skip" /\ CallerStep) =>
             (pcR' = "idle" /\ UNCHANGED <<data, command_event, ev>>)
      ]_vars

\* C9 witness: a unit request for the live unit is returning.
C9_Witness ==
    /\ pcR = "skip"
    /\ rkey = ATTR_TEMPERATURE_UNIT
    /\ rval = data[ATTR_TEMPERATURE_UNIT]

\* C10: every request_set_* call other than a unit request for the live unit
\* writes the pending field, then the live field, then sets the wake signal,
\* then calls data_handler() once and returns, whatever the availability
\* flag is.
C10_RequestWritesAndNotifies ==
    [][ /\ (pcR = "idle" /\ CallerStep
              /\ ~(rkey' = ATTR_TEMPERATURE_UNIT /\ rval' = data[ATTR_TEMPERATURE_UNIT])) =>
             (pcR' = "live" /\ rval' # None /\ data'[CtlOf(rkey')] = rval')
        /\ (pcR = "live" /\ CallerStep) =>
             (pcR' = "event" /\ data'[rkey] = rval)
        /\ (pcR = "event" /\ CallerStep) =>
             (pcR' = "notify" /\ command_event')
        /\ (pcR = "notify" /\ CallerStep) => pcR' = "idle"
        /\ (CallerStep /\ pcR' = "notify") => pcR = "event"
      ]_vars

\* C10 witness: before the worker has run, a target temperature request has
\* written both fields and set the wake signal while the device is
\* unavailable, and is at its data_handler() call.
C10_Witness ==
    /\ pcR = "notify"
    /\ pcW = "start"
    /\ ~data[ATTR_AVAILABLE]
    /\ command_event
    /\ data[ATTR_TARGET_TEMPERATURE] # None
    /\ data[ATTR_CTL_TARGET_TEMPERATURE] = data[ATTR_TARGET_TEMPERATURE]

\* C11: the worker calls data_handler() for a device response only when it
\* processes the response of a poll read or of a command whose value is not
\* empty and differs from the live field, and only while available is true;
\* while available is false the new value is stored in the live field and no
\* data_handler() call is made. (The calls of the requests are made whatever
\* available is: C10.)
C11_ResponseNotifiesOnlyWhenAvailable ==
    [][ /\ (WorkerStep /\ ev'.note = "response") =>
             /\ pcW = "respond"
             /\ data[ATTR_AVAILABLE]
             /\ resp # None
             /\ data[ev'.key] # resp
        /\ (pcW = "respond" /\ WorkerStep) =>
             /\ ev'.key = (IF key \in CtlKeys THEN LiveOf(key) ELSE PollKey(next_command))
             /\ resp # None => data'[ev'.key] = resp
             /\ \A k \in DOMAIN data \ {ev'.key} : data'[k] = data[k]
             /\ ~data[ATTR_AVAILABLE] => ev'.note = "none"
      ]_vars

\* C11 witness: while available, a changed hvac mode read from the device has
\* been stored and notified.
C11_Witness ==
    /\ ev.note = "response"
    /\ ev.key = ATTR_HVAC_MODE
    /\ data[ATTR_AVAILABLE]
    /\ pcW = "inner"

\* C12 as stated: at startup current temperature, target temperature and the
\* three pending fields are empty and available is false, and if no
\* request_set_* call is ever made the worker never sends set_unit,
\* set_temperature, start or stop.
C12_NoCommandWithoutRequest ==
    /\ [](pcW = "start" =>
            /\ ~data[ATTR_AVAILABLE]
            /\ data[ATTR_CURRENT_TEMPERATURE] = None
            /\ data[ATTR_TARGET_TEMPERATURE] = None
            /\ \A k \in CtlKeys : data[k] = None)
    /\ [][ WorkerStep => ev'.op \notin CommandOps ]_vars

\* C12 as amended: at startup current temperature, target temperature, hvac
\* mode, pending target temperature and pending hvac mode are empty and
\* available is false, while pending unit and live unit both hold the host's
\* configured unit; if no request_set_* call is ever made, pending target
\* temperature and pending hvac mode stay empty, the pending unit keeps the
\* host's unit until the worker empties it and stays empty from then on, and
\* the only command the worker ever sends is set_unit with that pending unit.
C12_OnlyHostUnitWithoutRequest ==
    /\ [](pcW = "start" =>
            /\ ~data[ATTR_AVAILABLE]
            /\ data[ATTR_CURRENT_TEMPERATURE] = None
            /\ data[ATTR_TARGET_TEMPERATURE] = None
            /\ data[ATTR_HVAC_MODE] = None
            /\ data[ATTR_CTL_TEMPERATURE_UNIT] # None
            /\ data[ATTR_CTL_TEMPERATURE_UNIT] = data[ATTR_TEMPERATURE_UNIT])
    /\ [](data[ATTR_CTL_TARGET_TEMPERATURE] = None /\ data[ATTR_CTL_HVAC_MODE] = None)
    /\ [][ /\ (WorkerStep /\ ev'.op \in CommandOps) =>
                /\ ev'.op = "set_unit"
                /\ data[ATTR_CTL_TEMPERATURE_UNIT] # None
                /\ ev'.val = data[ATTR_CTL_TEMPERATURE_UNIT]
           /\ data'[ATTR_CTL_TEMPERATURE_UNIT] \in {None, data[ATTR_CTL_TEMPERATURE_UNIT]}
         ]_vars

\* C12 witness: without any request, set_unit has been sent and has returned.
C12_Witness ==
    /\ pcW = "respond"
    /\ ev.op = "set_unit"
    /\ ev.res = "ok"
    /\ pcR = "idle"

\* C13: available stays false until the unit, the current temperature and the
\* target temperature have all been read from the device: in the runs in
\* which the device gives no reading of the unit or of the target
\* temperature, the host-configured unit and the values written by the
\* requests never make available true.
C13_UnavailableWithoutReadings == ~data[ATTR_AVAILABLE]

\* The device client has been dropped: ExceptionPexpect has been caught.
Faulted == device = None /\ pcW # "start"

\* Distance of the worker from its exit once the try block has been left.
ExitRank ==
    CASE pcW = "finally" -> 4
      [] pcW = "notify" -> 3
      [] pcW = "disconnect" -> 2
      [] pcW = "outer" -> 1
      [] OTHER -> 0

\* C14: ExceptionPexpect, raised by connect or by a poll or command call,
\* stops the worker for good: the stop flag is set and the device client
\* dropped, permanently; from then on the worker calls no device operation
\* (no connect, read, command or disconnect), every step it takes brings it
\* closer to its exit and it can always take one until it has exited;
\* available is not set to true any more and is false once the finally
\* clause has run.
C14_FatalFaultStopsWorker ==
    /\ [][ /\ (WorkerStep /\ ev'.res = "ExceptionPexpect") =>
                (pcW \in {"connect", "dispatch"} /\ pcW' = "finally" /\ Faulted')
           /\ Faulted => Faulted'
           /\ (Faulted /\ WorkerStep) =>
                (ev'.op = "none" /\ ExitRank' < ExitRank)
           /\ (Faulted /\ ~data[ATTR_AVAILABLE]) => ~data'[ATTR_AVAILABLE]
         ]_vars
    /\ [](Faulted =>
            /\ ~keep_going
            /\ pcW \in {"finally", "notify", "disconnect", "outer", "done"}
            /\ pcW \in {"disconnect", "outer", "done"} => ~data[ATTR_AVAILABLE]
            /\ pcW # "done" => ENABLED Worker)

\* C14 witness: without terminate(), the worker has exited after
\* ExceptionPexpect was raised on an established connection.
C14_Witness ==
    /\ Faulted
    /\ pcW = "done"
    /\ pcT = "idle"
    /\ conn = "open"

\* The response being processed answers set_target_temperature or
\* get_target_temperature.
TargetResponse ==
    /\ pcW = "respond"
    /\ \/ key = ATTR_CTL_TARGET_TEMPERATURE
       \/ key = NoKey /\ next_command = MON_GET_TARGET_TEMPERATURE

\* The last request_set_temperature call has returned, it asked for the value
\* of the response being processed, and its pending value is still in place.
EchoOfLastRequest ==
    /\ TargetResponse
    /\ resp # None
    /\ resp = data[ATTR_CTL_TARGET_TEMPERATURE]
    /\ pcR = "idle"

\* C15 as stated: after request_set_temperature(t) with no later request for
\* the target temperature, when the device echoes t (on the set command or on
\* a get_target_temperature poll) the live target temperature is t and the
\* worker makes no data_handler() call for it.
C15_EchoNeverNotifies ==
    [][ (EchoOfLastRequest /\ WorkerStep) =>
            (data'[ATTR_TARGET_TEMPERATURE] = resp /\ ev'.note = "none") ]_vars

\* C15 as amended: after request_set_temperature(t) with no later request for
\* the target temperature, when the device echoes t the live target
\* temperature is t afterwards; the worker makes no data_handler() call for it
\* if the live target temperature is still t, and makes one exactly if a
\* response processed since the request's write has replaced it and available
\* is true. The answer to a set command yields either no value or the value
\* sent.
C15_EchoNotifiesOnlyIfReplaced ==
    [][ /\ (EchoOfLastRequest /\ WorkerStep) =>
             /\ data'[ATTR_TARGET_TEMPERATURE] = resp
             /\ ev'.note = "response" <=>
                  (data[ATTR_TARGET_TEMPERATURE] # resp /\ data[ATTR_AVAILABLE])
             /\ ev'.note \in {"none", "response"}
        /\ (pcW = "respond" /\ key = ATTR_CTL_TARGET_TEMPERATURE) => resp \in {None, arg}
        /\ (data[ATTR_TARGET_TEMPERATURE] = data[ATTR_CTL_TARGET_TEMPERATURE]
              /\ data'[ATTR_TARGET_TEMPERATURE] # data[ATTR_TARGET_TEMPERATURE]
              /\ ~CallerStep) =>
             (TargetResponse /\ WorkerStep)
      ]_vars

\* C15 witness: while available, the echo of the requested target temperature
\* on the set command has been processed without a data_handler() call.
C15_Witness ==
    /\ pcW = "clear"
    /\ key = ATTR_CTL_TARGET_TEMPERATURE
    /\ ev.res = "ok"
    /\ ev.note = "none"
    /\ data[ATTR_AVAILABLE]
    /\ data[ATTR_TARGET_TEMPERATURE] = arg
    /\ data[ATTR_CTL_TARGET_TEMPERATURE] = arg
    /\ pcR = "idle"

\* C16: a recoverable error of connect, of a poll call or of a command call
\* takes the worker to the finally clause; there it first sets available to
\* false, calling data_handler() exactly if it was true, then attempts the
\* disconnect, then reaches the head of the outer loop, where it makes the
\* next connect attempt unless the stop flag is set (then it exits); the
\* worker can always take its next step on this path. available is false at
\* every connect attempt and whenever the worker has exited.
C16_RecoverableErrorReconnects ==
    /\ [][ /\ (WorkerStep /\ ev'.res = "Recoverable") =>
                /\ pcW \in {"connect", "dispatch"}
                /\ pcW' = "finally"
                /\ exc' = "Recoverable"
                /\ UNCHANGED <<data, keep_going, device>>
           /\ (pcW = "finally" /\ WorkerStep) =>
                /\ ~data'[ATTR_AVAILABLE]
                /\ ev'.op = "none"
                /\ IF data[ATTR_AVAILABLE]
                     THEN pcW' = "notify" /\ after' = "disconnect"
                     ELSE pcW' = "disconnect"
                /\ exc' = exc
           /\ (pcW = "notify" /\ after = "disconnect" /\ WorkerStep) =>
                /\ ev'.note = "available"
                /\ ev'.op = "none"
                /\ pcW' = "disconnect"
                /\ exc' = exc
           /\ (pcW = "disconnect" /\ exc = "Recoverable" /\ WorkerStep) =>
                /\ ev'.op = "disconnect"
                /\ pcW' = "outer"
           /\ (pcW = "outer" /\ WorkerStep) =>
                pcW' = (IF keep_going THEN "connect" ELSE "done")
           /\ (pcW = "connect" /\ WorkerStep) => ev'.op = "connect_device"
           /\ (WorkerStep /\ ev'.op = "connect_device") => pcW = "connect"
         ]_vars
    /\ [](pcW \in {"disconnect", "outer", "connect", "done"} => ~data[ATTR_AVAILABLE])
    /\ [](pcW \in {"finally", "notify", "disconnect", "outer", "connect"} => ENABLED Worker)

\* C16 witness: a connection on which readings were obtained has been lost
\* to a recoverable error; the worker has disconnected and is at its next
\* connect attempt, the stop flag being clear.
C16_Witness ==
    /\ pcW = "connect"
    /\ conn = "closed"
    /\ data[ATTR_TARGET_TEMPERATURE] # None
    /\ data[ATTR_CURRENT_TEMPERATURE] # None
    /\ keep_going
    /\ pcT = "idle"
    /\ device # None

\* C17: on a new connection the poll position is get_temperature_unit; an
\* iteration that finds no pending command calls the read of the poll
\* position, in the order get_temperature_unit, get_status,
\* get_current_temperature, get_target_temperature, each returned read moving
\* the position to the next, and after get_target_temperature it goes to the
\* idle wait with the position set to get_status; the position is never moved
\* back to get_temperature_unit while the connection lasts, so the unit is
\* read at most once per connection.
C17_PollOrder ==
    [][ /\ (pcW = "connect" /\ WorkerStep /\ ev'.res = "ok") =>
             (next_command' = MON_GET_TEMPERATURE_UNIT /\ pcW' = "inner")
        /\ (pcW = "dispatch" /\ WorkerStep /\ ~SomePending) =>
             /\ next_command = MON_GET_TEMPERATURE_UNIT => ev'.op = "get_unit"
             /\ next_command = MON_GET_STATUS => ev'.op = "get_status"
             /\ next_command = MON_GET_CURRENT_TEMPERATURE => ev'.op = "get_current_temperature"
             /\ next_command = MON_GET_TARGET_TEMPERATURE => ev'.op = "get_target_temperature"
             /\ next_command = MON_IDLE =>
                  (ev'.op = "none" /\ pcW' = "clear_event" /\ next_command' = MON_GET_STATUS)
             /\ (ev'.op \in PollOps /\ ev'.res = "ok") =>
                  (pcW' = "respond" /\ key' = NoKey /\ next_command' = next_command)
        /\ (pcW = "respond" /\ key = NoKey /\ WorkerStep) =>
             (next_command' = next_command + 1 /\ pcW' = "inner")
        /\ (pcW = "clear_event" /\ WorkerStep) => pcW' = "wait"
        /\ (pcW = "wait" /\ WorkerStep) => pcW' = "inner"
        /\ next_command' # next_command =>
             /\ WorkerStep
             /\ \/ pcW = "respond" /\ key = NoKey
                \/ pcW = "dispatch" /\ pcW' = "clear_event"
                \/ pcW' = "finally" /\ next_command' = MON_GET_TEMPERATURE_UNIT
        /\ (WorkerStep /\ ev'.op = "get_unit") => next_command = MON_GET_TEMPERATURE_UNIT
      ]_vars

\* C17 witness: the worker has gone through the four reads and the idle wait,
\* and has woken with the poll position at get_status.
C17_Witness ==
    /\ pcW = "inner"
    /\ ev.res = "timeout"
    /\ next_command = MON_GET_STATUS
    /\ ~SomePending

\* C18: once terminate() has set the stop flag and the wake signal, the worker
\* is never blocked in the idle wait with the wake signal cleared, whatever
\* the interleaving of terminate() with the worker's iteration.
C18_NeverAsleepAfterTerminate ==
    ~(pcW = "wait" /\ ~command_event /\ ~keep_going /\ pcT = "join")

\* C19: current temperature, target temperature and unit, once non-empty,
\* are never set back to empty; hence once available has been true the three
\* stay known, and on every connection made afterwards the first step of the
\* Connected loop, unless the stop flag ends the loop, sets available to true
\* without calling any read or command.
C19_AvailableAgainOnReconnect ==
    /\ [][ /\ \A k \in {ATTR_CURRENT_TEMPERATURE, ATTR_TARGET_TEMPERATURE,
                        ATTR_TEMPERATURE_UNIT} :
                data[k] # None => data'[k] # None
           /\ (pcW = "connect" /\ WorkerStep /\ ev'.res = "ok") => pcW' = "inner"
           /\ (pcW = "inner" /\ WorkerStep /\ keep_going /\ AllKnown) =>
                (data'[ATTR_AVAILABLE] /\ ev'.op = "none")
           /\ (pcW = "inner" /\ WorkerStep /\ ~keep_going) =>
                (pcW' = "finally" /\ ev'.op = "none")
         ]_vars
    /\ [](data[ATTR_AVAILABLE] => AllKnown)

\* C19 witness: on a new connection, before any read or command, available
\* has been set to true from the values kept from an earlier connection.
C19_Witness ==
    /\ pcW = "dispatch"
    /\ ev.note = "available"
    /\ data[ATTR_AVAILABLE]
    /\ next_command = MON_GET_TEMPERATURE_UNIT
    /\ conn = "open"

\* C20: executing a pending command leaves the poll position unchanged: the
\* device call of a command that returns, the processing of its response and
\* the clearing of its pending field do not change next_command, so the read
\* that was due before the command is the read due after it.
C20_CommandKeepsPollPosition ==
    [][ /\ (pcW = "dispatch" /\ WorkerStep /\ ev'.op \in CommandOps /\ ev'.res = "ok") =>
             (next_command' = next_command /\ pcW' = "respond" /\ key' \in CtlKeys)
        /\ (pcW = "respond" /\ key \in CtlKeys /\ WorkerStep) =>
             (next_command' = next_command /\ pcW' = "clear" /\ key' = key)
        /\ (pcW = "clear" /\ WorkerStep) =>
             (next_command' = next_command /\ pcW' = "inner")
      ]_vars

\* C20 witness: a command has been executed between the get_status read and
\* the get_current_temperature read, which is still the read that is due.
C20_Witness ==
    /\ pcW = "clear"
    /\ key \in CtlKeys
    /\ next_command = MON_GET_CURRENT_TEMPERATURE

====
